---- MODULE Spec2Model ----
(***************************************************************************)
(* State-machine model of the FinSight-AI company comparison agent:        *)
(*   src/agents/comparison_agent.py  ComparisonAgent (process_messages,    *)
(*                                   _extract_latest_text, _chat_with_tools)*)
(*   src/utils/utils.py              compare_companies, handle_tool_calls,  *)
(*                                   is_comparison_query                    *)
(*   src/main.py                     lifespan (cleanup at shutdown)         *)
(*                                                                         *)
(* Representation.  A text is a sequence of tokens (words, or the          *)
(* whitespace token WS); consecutive tokens are separated by whitespace.   *)
(* A Python value is a record [ty, kv, lit]: a dict is its set kv of       *)
(* <<key, value>> pairs, a value being itself a set of pairs (a scalar s   *)
(* is {<<"", s>>}, a nested dict its own pairs).  A Python str is a record *)
(* [tok, js]: its tokens and its reading as JSON (js.wf is FALSE when the  *)
(* string is not JSON), so json.dumps and json.loads change the type of    *)
(* what they convert and json.loads can fail.                              *)
(***************************************************************************)
EXTENDS Integers, Sequences, FiniteSets, TLC

(***************************************************************************)
(* Bounds of the exploration.                                              *)
(***************************************************************************)
\* requests the process handles (concurrently) in one run of the server
MaxReq == 2
\* model invocations one run of the loop may make before the exploration stops
MaxRounds == 3
\* tool calls the model may request in one run of the loop
MaxCalls == 2
MaxParts == 3

Requests == 1..MaxReq

(***************************************************************************)
(* Texts.                                                                  *)
(***************************************************************************)
WS == " "
\* the token standing for Python's None where a text is expected
NoneTok == "<None>"
PyNone == <<NoneTok>>

\* truthiness of an Optional[str]
Truthy(t) == t # PyNone /\ t # <<>>

RECURSIVE lstrip(_)
lstrip(s) == IF s # <<>> /\ Head(s) = WS THEN lstrip(Tail(s)) ELSE s

RECURSIVE rstrip(_)
rstrip(s) == IF s # <<>> /\ s[Len(s)] = WS THEN rstrip(SubSeq(s, 1, Len(s) - 1)) ELSE s

strip(s) == rstrip(lstrip(s))

startswith(s, p) == s # <<>> /\ Head(s) = p

\* re.IGNORECASE: the capitalised tokens of the vocabulary and their lower case
Lower(t) ==
  CASE t = "Compare" -> "compare"
    [] t = "Which" -> "which"
    [] t = "VS" -> "vs"
    [] OTHER -> t

IsWordTok(t) == t # WS

\* the words of a text, lower-cased, whitespace dropped
Words(text) == LET ws == SelectSeq(text, IsWordTok) IN [i \in 1..Len(ws) |-> Lower(ws[i])]

HasWord(w, S) == \E i \in 1..Len(w) : w[i] \in S
HasAdj(w, A, B) == \E i \in 1..(Len(w) - 1) : w[i] \in A /\ w[i + 1] \in B
Comparatives == {"better", "worse", "higher", "lower", "more", "less"}

\* src/utils/utils.py:77-95, one disjunct per pattern, in the source's order
comparison_patterns(w) ==
  \/ HasWord(w, {"better"})
  \/ HasWord(w, {"worse"})
  \/ HasWord(w, {"compare"})
  \/ HasWord(w, {"comparing"})
  \/ HasWord(w, {"comparison"})
  \/ HasWord(w, {"versus"})
  \/ HasWord(w, {"vs"})
  \/ HasWord(w, {"vs."})
  \/ HasWord(w, {"against"})
  \/ HasWord(w, {"between"})
  \/ HasAdj(w, {"difference"}, {"between", "of"})
  \/ \E i \in 1..Len(w), j \in 1..Len(w), k \in 1..Len(w) :
       /\ i + 1 < j /\ j < k
       /\ w[i] = "how" /\ w[i + 1] = "does" /\ w[j] = "compare" /\ w[k] = "to"
  \/ \E i \in 1..Len(w), j \in 1..Len(w) :
       i + 1 < j /\ w[i] = "how" /\ w[i + 1] = "do" /\ w[j] = "compare"
  \/ \E i \in 1..Len(w), j \in 1..Len(w) :
       /\ i + 1 < j /\ w[i] = "which"
       /\ w[i + 1] \in {"is", "has", "performs", "does"} /\ w[j] \in Comparatives
  \/ HasAdj(w, {"is", "are"}, Comparatives)
  \/ HasWord(w, {"than"})
  \/ HasAdj(w, {"relative"}, {"to"})

is_comparison_query(text) == comparison_patterns(Words(text))

(***************************************************************************)
(* Inbound A2A messages and text extraction.                               *)
(***************************************************************************)
\* part.data: None, a dict, or a list of items
NoData == [py |-> "none", items |-> <<>>]
ListData(items) == [py |-> "list", items |-> items]
DictData == [py |-> "dict", items |-> <<>>]
DataTruthy(d) == d.py = "dict" \/ (d.py = "list" /\ d.items # <<>>)

TextPart(t) == [kind |-> "text", text |-> t, data |-> NoData]
DataPart(d) == [kind |-> "data", text |-> PyNone, data |-> d]
TextItem(t) == [isDict |-> TRUE, kind |-> "text", text |-> t]

\* the inner loop, src/agents/comparison_agent.py:169-175, from entry i downwards
RECURSIVE ScanHistory(_, _)
ScanHistory(items, i) ==
  IF i = 0 THEN [found |-> FALSE, text |-> <<>>]
  ELSE LET item == items[i] IN
       IF /\ item.isDict /\ item.kind = "text"
          /\ Truthy(item.text)
          /\ ~startswith(item.text, "sorry")
          /\ ~startswith(item.text, "<")
       THEN [found |-> TRUE, text |-> strip(item.text)]
       ELSE ScanHistory(items, i - 1)

\* the outer loop over message.parts from part i on, with latest_text so far
RECURSIVE ExtractFrom(_, _, _)
ExtractFrom(parts, i, latest) ==
  IF i > Len(parts) THEN latest
  ELSE LET part == parts[i] IN
       IF part.kind = "text" /\ Truthy(part.text)
       THEN ExtractFrom(parts, i + 1, strip(part.text))
       ELSE IF part.kind = "data" /\ DataTruthy(part.data) /\ part.data.py = "list"
       THEN LET h == ScanHistory(part.data.items, Len(part.data.items)) IN
            ExtractFrom(parts, i + 1, IF h.found THEN h.text ELSE latest)
       ELSE ExtractFrom(parts, i + 1, latest)

_extract_latest_text(message) == ExtractFrom(message.parts, 1, <<>>)

(***************************************************************************)
(* Python values, strings and JSON.                                        *)
(***************************************************************************)
Scalar(s) == {<<"", s>>}
Dict(kv) == [ty |-> "dict", kv |-> kv, lit |-> ""]
PyBool(b) == [ty |-> "bool", kv |-> {}, lit |-> IF b THEN "true" ELSE "false"]
PyList == [ty |-> "list", kv |-> {}, lit |-> "[]"]
EmptyDict == Dict({})

Keys(d) == {p[1] : p \in d.kv}
HasKey(d, k) == k \in Keys(d)
\* d[k] for a key d has
Get(d, k) == (CHOOSE p \in d.kv : p[1] = k)[2]
\* the string a scalar value holds
StrOf(v) == (CHOOSE p \in v : p[1] = "")[2]

NotJson == [wf |-> FALSE, val |-> EmptyDict]
\* a str that is plain text
Str(t) == [tok |-> t, js |-> NotJson]
\* json.dumps(v)
dumps(v) == [tok |-> <<"json">>, js |-> [wf |-> TRUE, val |-> v]]
\* json.loads(s): ok is FALSE when it raises JSONDecodeError
loads(s) == [ok |-> s.js.wf, val |-> s.js.val]

(***************************************************************************)
(* The data source behind yf.Ticker(t).info, fixed for the exploration:    *)
(* two known companies, a ticker with an empty record, a ticker whose      *)
(* record lacks shortName, and a ticker on which the source raises.        *)
(***************************************************************************)
Tickers == {"AAPL", "MSFT", "ZZZZ", "NONAME", "BOOM", ""}

YfRaises(t) == t = "BOOM"

YfInfo(t) ==
  CASE t = "AAPL" -> Dict({<<"shortName", Scalar("Apple Inc.")>>,
                           <<"sector", Scalar("Technology")>>,
                           <<"marketCap", Scalar("3T")>>,
                           <<"profitMargins", Scalar("0.25")>>,
                           <<"trailingPE", Scalar("30")>>})
    [] t = "MSFT" -> Dict({<<"shortName", Scalar("Microsoft Corporation")>>,
                           <<"sector", Scalar("Technology")>>,
                           <<"marketCap", Scalar("2T")>>,
                           <<"dividendYield", Scalar("0.8")>>})
    [] t = "NONAME" -> Dict({<<"sector", Scalar("Energy")>>})
    [] OTHER -> EmptyDict

metrics == {"shortName", "sector", "marketCap", "currentPrice", "revenueGrowth",
            "grossMargins", "profitMargins", "trailingPE", "dividendYield"}

\* {m: c.get(m, "N/A") for m in metrics}
company_data(c) == {<<m, IF HasKey(c, m) THEN StrOf(Get(c, m)) ELSE "N/A">> : m \in metrics}

Metric(cd, m) == (CHOOSE p \in cd : p[1] = m)[2]

insight(d1, d2) ==
  Metric(d1, "shortName") \o " vs " \o Metric(d2, "shortName") \o
  " Sector: " \o Metric(d1, "sector") \o " | " \o Metric(d2, "sector") \o
  " Market Cap: " \o Metric(d1, "marketCap") \o " | " \o Metric(d2, "marketCap") \o
  " Profit Margin: " \o Metric(d1, "profitMargins") \o " | " \o Metric(d2, "profitMargins") \o
  " P/E Ratio: " \o Metric(d1, "trailingPE") \o " | " \o Metric(d2, "trailingPE") \o
  " Dividend Yield: " \o Metric(d1, "dividendYield") \o " | " \o Metric(d2, "dividendYield")

ErrorDict(msg) == Dict({<<"error", Scalar(msg)>>})

\* the tickers compare_companies looks up at the data source, in order
Lookups(ticker1, ticker2) ==
  IF ticker1 = "" \/ ticker2 = "" THEN <<>>
  ELSE IF YfRaises(ticker1) THEN <<ticker1>>
  ELSE <<ticker1, ticker2>>

\* compare_companies returning the first company's metrics along with the
\* error when only the second ticker is unknown
compare_companies_partial(ticker1, ticker2) ==
  IF ticker1 = "" \/ ticker2 = ""
  THEN ErrorDict("Both ticker symbols must be provided.")
  ELSE IF YfRaises(ticker1) \/ YfRaises(ticker2)
  THEN ErrorDict("An unexpected error occurred: data source failure")
  ELSE LET c1 == YfInfo(ticker1)
           c2 == YfInfo(ticker2)
       IN IF c1.kv = {} \/ ~HasKey(c1, "shortName")
          THEN ErrorDict("Could not retrieve data for '" \o ticker1 \o "'. Please check the ticker symbol.")
          ELSE IF c2.kv = {} \/ ~HasKey(c2, "shortName")
          THEN Dict({<<"error", Scalar("Could not retrieve data for '" \o ticker2 \o "'.")>>,
                     <<"company1", company_data(c1)>>})
          ELSE LET company1_data == company_data(c1)
                   company2_data == company_data(c2)
               IN Dict({<<"insight", Scalar(insight(company1_data, company2_data))>>,
                        <<"company1", company1_data>>,
                        <<"company2", company2_data>>})

\* src/utils/utils.py:7-48
compare_companies(ticker1, ticker2) ==
  IF ticker1 = "" \/ ticker2 = ""
  THEN ErrorDict("Both ticker symbols must be provided.")
  ELSE IF YfRaises(ticker1) \/ YfRaises(ticker2)
  THEN ErrorDict("An unexpected error occurred: data source failure")
  ELSE LET c1 == YfInfo(ticker1)
           c2 == YfInfo(ticker2)
       IN IF c1.kv = {} \/ ~HasKey(c1, "shortName")
          THEN ErrorDict("Could not retrieve data for '" \o ticker1 \o "'. Please check the ticker symbol.")
          ELSE IF c2.kv = {} \/ ~HasKey(c2, "shortName")
          THEN ErrorDict("Could not retrieve data for '" \o ticker2 \o "'. Please check the ticker symbol.")
          ELSE LET company1_data == company_data(c1)
                   company2_data == company_data(c2)
               IN Dict({<<"insight", Scalar(insight(company1_data, company2_data))>>,
                        <<"company1", company1_data>>,
                        <<"company2", company2_data>>})

(***************************************************************************)
(* Tool registry and dispatch.                                             *)
(***************************************************************************)
\* src/utils/utils.py:51-53: the tools declared to the model
tools == {"compare_companies"}

\* the module globals of utils/utils.py that globals().get can return
GlobalFunctions == {"compare_companies", "handle_tool_calls", "is_comparison_query"}
GlobalObjects == {"yf", "json", "re", "compare_companies_json", "tools"}

ToolCall(id, name, arguments) ==
  [id |-> id, type |-> "function", name |-> name, arguments |-> arguments]

\* tool(**arguments) for a function of the module: [ok, val, err]
CallGlobal(name, args) ==
  LET te == [ok |-> FALSE, val |-> EmptyDict, err |-> "TypeError"] IN
  IF args.ty # "dict" THEN te
  ELSE CASE name = "compare_companies" ->
              IF Keys(args) = {"ticker1", "ticker2"}
              THEN [ok |-> TRUE, err |-> "",
                    val |-> compare_companies(StrOf(Get(args, "ticker1")),
                                              StrOf(Get(args, "ticker2")))]
              ELSE te
         [] name = "is_comparison_query" ->
              IF Keys(args) = {"text"}
              THEN [ok |-> TRUE, err |-> "",
                    val |-> PyBool(is_comparison_query(<<StrOf(Get(args, "text"))>>))]
              ELSE te
         [] name = "handle_tool_calls" ->
              \* iterating a str: no call for "", an AttributeError on a character
              IF Keys(args) = {"tool_calls"}
              THEN IF StrOf(Get(args, "tool_calls")) = ""
                   THEN [ok |-> TRUE, err |-> "", val |-> PyList]
                   ELSE [ok |-> FALSE, val |-> EmptyDict, err |-> "AttributeError"]
              ELSE te
         [] OTHER -> te

\* Dispatch with the result of an unknown tool left out (a dispatcher that
\* appends a result only when the lookup found something)
Dispatch_skip_unknown(tool_call) ==
  LET arguments == loads(tool_call.arguments)
      tool_name == tool_call.name
      none == [ok |-> FALSE, result |-> <<>>, err |-> "", invoked |-> <<>>, lookups |-> <<>>]
  IN IF ~arguments.ok THEN [none EXCEPT !.err = "JSONDecodeError"]
     ELSE IF tool_name \in GlobalFunctions
     THEN LET c == CallGlobal(tool_name, arguments.val) IN
          IF c.ok
          THEN [ok |-> TRUE, err |-> "", invoked |-> <<tool_name>>,
                lookups |-> IF tool_name = "compare_companies"
                            THEN Lookups(StrOf(Get(arguments.val, "ticker1")),
                                         StrOf(Get(arguments.val, "ticker2")))
                            ELSE <<>>,
                result |-> <<[role |-> "tool", content |-> dumps(c.val),
                              tool_calls |-> <<>>, tool_call_id |-> tool_call.id]>>]
          ELSE [none EXCEPT !.err = c.err,
                            !.invoked = IF c.err = "AttributeError" THEN <<tool_name>> ELSE <<>>]
     ELSE IF tool_name \in GlobalObjects
     THEN [none EXCEPT !.err = "TypeError"]
     ELSE [none EXCEPT !.ok = TRUE]

\* one iteration of the loop of handle_tool_calls, src/utils/utils.py:60-70:
\* [ok, result, err, invoked (the callables called), lookups]
Dispatch(tool_call) ==
  LET arguments == loads(tool_call.arguments)
      tool_name == tool_call.name
      none == [ok |-> FALSE, result |-> <<>>, err |-> "", invoked |-> <<>>, lookups |-> <<>>]
  IN IF ~arguments.ok THEN [none EXCEPT !.err = "JSONDecodeError"]
     ELSE IF tool_name \in GlobalFunctions
     THEN LET c == CallGlobal(tool_name, arguments.val) IN
          IF c.ok
          THEN [ok |-> TRUE, err |-> "", invoked |-> <<tool_name>>,
                lookups |-> IF tool_name = "compare_companies"
                            THEN Lookups(StrOf(Get(arguments.val, "ticker1")),
                                         StrOf(Get(arguments.val, "ticker2")))
                            ELSE <<>>,
                result |-> <<[role |-> "tool", content |-> dumps(c.val),
                              tool_calls |-> <<>>, tool_call_id |-> tool_call.id]>>]
          ELSE [none EXCEPT !.err = c.err,
                            !.invoked = IF c.err = "AttributeError" THEN <<tool_name>> ELSE <<>>]
     ELSE IF tool_name \in GlobalObjects
     THEN [none EXCEPT !.err = "TypeError"]
     ELSE [ok |-> TRUE, err |-> "", invoked |-> <<>>, lookups |-> <<>>,
           result |-> <<[role |-> "tool", content |-> dumps(EmptyDict),
                         tool_calls |-> <<>>, tool_call_id |-> tool_call.id]>>]

\* handle_tool_calls from call i on: [ok, results, err, invoked, lookups]; it
\* stops at the first call that raises, the calls before it having been made
RECURSIVE HandleFrom(_, _)
HandleFrom(tool_calls, i) ==
  IF i > Len(tool_calls)
  THEN [ok |-> TRUE, results |-> <<>>, err |-> "", invoked |-> <<>>, lookups |-> <<>>]
  ELSE LET d == Dispatch(tool_calls[i]) IN
       IF ~d.ok
       THEN [ok |-> FALSE, results |-> <<>>, err |-> d.err,
             invoked |-> d.invoked, lookups |-> d.lookups]
       ELSE LET rest == HandleFrom(tool_calls, i + 1) IN
            [ok |-> rest.ok, err |-> rest.err,
             results |-> IF rest.ok THEN d.result \o rest.results ELSE <<>>,
             invoked |-> d.invoked \o rest.invoked,
             lookups |-> d.lookups \o rest.lookups]

\* handle_tool_calls calling every tool twice
handle_tool_calls_twice(tool_calls) ==
  LET h == HandleFrom(tool_calls, 1) IN
  [h EXCEPT !.invoked = @ \o @, !.lookups = @ \o @]

\* src/utils/utils.py:56-72
handle_tool_calls(tool_calls) == HandleFrom(tool_calls, 1)

(***************************************************************************)
(* What the outside world can send: inbound message lists and the          *)
(* language model's responses.                                             *)
(***************************************************************************)
Msg(parts) == [role |-> "user", parts |-> parts]

CompareText == <<"Compare", "apple", "and", "microsoft">>
VersusText == <<"tesla", "vs", "ford">>
WeatherText == <<"weather", "today">>

\* the message lists of the exploration: a direct comparison text, a
\* comparison text found in a nested history list (after skipping a
\* placeholder), a non-comparison text, a whitespace-only text, a message
\* without parts, and the empty list
MsgCompare == <<Msg(<<TextPart(CompareText)>>)>>
MsgNested ==
  <<Msg(<<DataPart(ListData(<<TextItem(VersusText \o <<WS>>), TextItem(<<"sorry", "failed">>)>>))>>)>>
MsgWeather == <<Msg(<<TextPart(WeatherText)>>)>>
MsgBlank == <<Msg(<<TextPart(<<WS>>)>>)>>
MsgNoParts == <<Msg(<<>>)>>
NoMessages == <<>>

SessionInputs == {MsgCompare, MsgNested, MsgWeather, MsgBlank, NoMessages}
LoopInputs == {MsgCompare, MsgWeather, MsgNoParts, NoMessages}

\* what json.dumps would give for the arguments the model writes
ArgsOf(kv) == dumps(Dict(kv))
TickerArgs(t1, t2) == ArgsOf({<<"ticker1", Scalar(t1)>>, <<"ticker2", Scalar(t2)>>})
Malformed == Str(<<"{ticker1:">>)

Call(name, arguments) == [name |-> name, arguments |-> arguments]

\* the calls the model can issue in the loop specification
LoopCalls ==
  { Call("compare_companies", TickerArgs("AAPL", "MSFT")),
    Call("compare_companies", TickerArgs("MSFT", "AAPL")),
    Call("compare_companies", TickerArgs("AAPL", "ZZZZ")),
    Call("compare_companies", ArgsOf({<<"ticker1", Scalar("AAPL")>>})),
    Call("compare_companies", Malformed),
    Call("get_stock_price", TickerArgs("AAPL", "MSFT")),
    Call("get_stock_price", Malformed),
    Call("is_comparison_query", ArgsOf({<<"text", Scalar("compare")>>})),
    Call("handle_tool_calls", ArgsOf({<<"tool_calls", Scalar("")>>})),
    Call("json", ArgsOf({})) }

\* the calls the model can issue in the concurrent specification
SessionCalls ==
  { Call("compare_companies", TickerArgs("AAPL", "MSFT")),
    Call("get_stock_price", Malformed),
    Call("is_comparison_query", ArgsOf({<<"text", Scalar("compare")>>})) }

CallId(i) == "call_" \o ToString(i)

\* the tool_calls lists of n calls drawn from C, identifiers by position
CallSeqs(C, n) ==
  { [i \in 1..n |-> ToolCall(CallId(i), f[i].name, f[i].arguments)] : f \in [1..n -> C] }

Answer == <<"Apple", "is", "ahead">>

\* a response of the model: choice.finish_reason, choice.message.content and
\* choice.message.tool_calls (has_calls is FALSE when tool_calls is None)
ToolResponse(tcs) ==
  [finish_reason |-> "tool_calls", content |-> PyNone, tool_calls |-> tcs, has_calls |-> TRUE]
NoCallsResponse ==
  [finish_reason |-> "tool_calls", content |-> PyNone, tool_calls |-> <<>>, has_calls |-> FALSE]
FinalResponses ==
  { [finish_reason |-> "stop", content |-> Answer, tool_calls |-> <<>>, has_calls |-> FALSE],
    [finish_reason |-> "stop", content |-> PyNone, tool_calls |-> <<>>, has_calls |-> FALSE],
    [finish_reason |-> "length", content |-> <<"Apple">>, tool_calls |-> <<>>, has_calls |-> FALSE] }

\* the final responses of the concurrent specification
SessionFinals == {resp \in FinalResponses : resp.finish_reason = "stop"}

\* the exceptions client.chat.completions.create raises
ModelErrors == {"APIConnectionError"}

(***************************************************************************)
(* State.                                                                  *)
(***************************************************************************)
VARIABLES
  conversations,   \* self.conversations: context id -> list object (NoList: no session)
  lists,           \* the history list objects, by the request that created them
  shutdown,        \* the lifespan has run cleanup
  pc,              \* where each request's handler is
  request,         \* the arguments process_messages was called with
  context_id,      \* locals of process_messages
  history,
  user_text,
  messages,        \* locals of _chat_with_tools
  response,
  comparison_data,
  outcome,         \* the TaskResult returned
  error,           \* the exception process_messages raised
  llm_calls,       \* observers: model invocations made,
  invoked,         \*   callables called by the dispatcher,
  lookups,         \*   tickers looked up at the data source,
  filter_calls,    \*   calls of the intent filter,
  wrote,           \*   whether a step of the request changed the session state
  endpoint         \* a2a_endpoint: the body each request carried and the reply to it

\* the state of the agent and of its runs
agent_vars == <<conversations, lists, shutdown, pc, request, context_id, history, user_text,
                messages, response, comparison_data, outcome, error, llm_calls, invoked,
                lookups, filter_calls, wrote>>

vars == <<agent_vars, endpoint>>

NoCtx == 0
NoList == 0
\* the list object of a session that a request before those observed left
\* behind
PriorList == MaxReq + 1
ListRefs == Requests \cup {PriorList}
\* the context identifiers clients choose themselves
ClientCtxIds == {1}
ClientCtx == CHOOSE c \in ClientCtxIds : TRUE
\* uuid4 giving every request the same identifier
uuid4_fixed(r) == Cardinality(ClientCtxIds) + 1

\* str(uuid4()): an identifier no client and no other request has
uuid4(r) == Cardinality(ClientCtxIds) + r
CtxIds == ClientCtxIds \cup {uuid4(r) : r \in Requests}

PyNoneVal == [ty |-> "none", kv |-> {}, lit |-> "None"]
\* truthiness of a Python value
PyTruthy(v) == (v.ty = "dict" /\ v.kv # {}) \/ (v.ty = "bool" /\ v.lit = "true")

ChatMsg(role, text) ==
  [role |-> role, content |-> Str(text), tool_calls |-> <<>>, tool_call_id |-> ""]
system_prompt == <<"You are a helpful financial assistant", "Format your final response">>

NoResponse ==
  [finish_reason |-> "none", content |-> PyNone, tool_calls |-> <<>>, has_calls |-> FALSE]
NoOutcome == [state |-> "none", contextId |-> NoCtx, message |-> <<>>, artifacts |-> <<>>]
NoRequest == [messages |-> <<>>, context_id |-> NoCtx]

Guidance == <<"This AI Agent is designed only for comparing two companies.",
              "Please rephrase your request to include two companies for comparison.">>
ErrPrefix == "An error occurred while processing your request:"

TextArtifact(name, text) == [name |-> name, kind |-> "text", text |-> text, data |-> PyNoneVal]
DataArtifact(name, data) == [name |-> name, kind |-> "data", text |-> PyNone, data |-> data]

\* RejectedOutcome with the rejection reported as a failure
RejectedOutcome_as_failure(c) ==
  [state |-> "failed", contextId |-> c, message |-> Guidance, artifacts |-> <<>>]

\* src/agents/comparison_agent.py:57-81
RejectedOutcome(c) ==
  [state |-> "completed", contextId |-> c, message |-> Guidance, artifacts |-> <<>>]

\* src/agents/comparison_agent.py:134-152
FailedOutcome(c, e) ==
  [state |-> "failed", contextId |-> c, message |-> <<ErrPrefix, e>>, artifacts |-> <<>>]

\* src/agents/comparison_agent.py:100-118
BuildArtifacts(assistant_response, data) ==
  <<TextArtifact("comparison_text", assistant_response)>> \o
  (IF PyTruthy(data) THEN <<DataArtifact("comparison_data", data)>> ELSE <<>>)

\* src/agents/comparison_agent.py:93-132
CompletedOutcome(c, assistant_response, data) ==
  [state |-> "completed", contextId |-> c, message |-> assistant_response,
   artifacts |-> BuildArtifacts(assistant_response, data)]

\* no body received and nothing sent
NoBody ==
  [json |-> "none", jsonrpc |-> "", has_id |-> FALSE, id |-> "", method |-> "",
   valid |-> FALSE, messages |-> <<>>, contextId |-> NoCtx]
NoHttp == [sent |-> "none", status |-> 0, id |-> "", code |-> 0, detail |-> "",
           result |-> NoOutcome]
NoExchange == [body |-> NoBody, http |-> NoHttp]

\* no request has arrived
InitRuns ==
  /\ shutdown = FALSE
  /\ pc = [r \in Requests |-> "new"]
  /\ request = [r \in Requests |-> NoRequest]
  /\ context_id = [r \in Requests |-> NoCtx]
  /\ history = [r \in Requests |-> NoList]
  /\ user_text = [r \in Requests |-> <<>>]
  /\ messages = [r \in Requests |-> <<>>]
  /\ response = [r \in Requests |-> NoResponse]
  /\ comparison_data = [r \in Requests |-> PyNoneVal]
  /\ outcome = [r \in Requests |-> NoOutcome]
  /\ error = [r \in Requests |-> ""]
  /\ llm_calls = [r \in Requests |-> 0]
  /\ invoked = [r \in Requests |-> <<>>]
  /\ lookups = [r \in Requests |-> <<>>]
  /\ filter_calls = [r \in Requests |-> 0]
  /\ wrote = [r \in Requests |-> FALSE]
  /\ endpoint = [r \in Requests |-> NoExchange]

Init ==
  /\ conversations = [c \in CtxIds |-> NoList]
  /\ lists = [l \in ListRefs |-> <<>>]
  /\ InitRuns

(***************************************************************************)
(* process_messages up to its first suspension point.                      *)
(***************************************************************************)
\* context_id or str(uuid4())
ContextOf(r, cid) == IF cid = NoCtx THEN uuid4(r) ELSE cid

\* get_history as self.conversations.setdefault(context_id, []) would be: the
\* lookup stores the new list
get_history_setdefault(c, r) ==
  LET ref == IF conversations[c] # NoList THEN conversations[c] ELSE r IN
  [ref |-> ref, map |-> [conversations EXCEPT ![c] = ref]]

\* self.conversations.get(context_id, []): the list found, or a new empty
\* list (the one of request r); the map itself is not changed by the lookup
get_history(c, r) ==
  [ref |-> IF conversations[c] # NoList THEN conversations[c] ELSE r,
   map |-> conversations]

\* messages[-1] if messages else None, then _extract_latest_text
UserText(msgs) == IF msgs = <<>> THEN <<>> ELSE _extract_latest_text(msgs[Len(msgs)])

\* InputError without the check of lines 52-53
InputError_no_text_check(msgs) == IF msgs = <<>> THEN "No message provided" ELSE ""

\* the ValueError of lines 45-53, "" when the input passes
InputError(msgs) ==
  IF msgs = <<>> THEN "No message provided"
  ELSE IF UserText(msgs) = <<>> THEN "No text content found in message"
  ELSE ""

\* the context ids a client can send: none, its own, or one a response gave it
Supplied == {NoCtx} \cup ClientCtxIds \cup {outcome[q].contextId : q \in Requests}

\* a request arrives: the server is up, and requests are numbered by arrival
Arrives(r, cid) ==
  /\ pc[r] = "new"
  /\ ~shutdown
  /\ cid \in Supplied
  /\ r > 1 => pc[r - 1] # "new"

\* every step of request r observes whether it changed the session state
Track(r) ==
  wrote' = [wrote EXCEPT ![r] = @ \/ conversations' # conversations \/ lists' # lists]

Locals(r, msgs, cid) ==
  /\ request' = [request EXCEPT ![r] = [messages |-> msgs, context_id |-> cid]]
  /\ context_id' = [context_id EXCEPT ![r] = ContextOf(r, cid)]
  /\ history' = [history EXCEPT ![r] = get_history(ContextOf(r, cid), r).ref]
  /\ conversations' = get_history(ContextOf(r, cid), r).map
  /\ user_text' = [user_text EXCEPT ![r] = UserText(msgs)]

\* lines 37-53: no message, or no text in it
RaiseInputError(r, msgs, cid) ==
  /\ Arrives(r, cid)
  /\ InputError(msgs) # ""
  /\ Locals(r, msgs, cid)
  /\ pc' = [pc EXCEPT ![r] = "raised"]
  /\ error' = [error EXCEPT ![r] = InputError(msgs)]
  /\ UNCHANGED <<lists, shutdown, messages, response, comparison_data, outcome,
                 llm_calls, invoked, lookups, filter_calls>>
  /\ Track(r)

\* lines 37-81: the intent filter rejects the text
RejectQuery(r, msgs, cid) ==
  /\ Arrives(r, cid)
  /\ InputError(msgs) = ""
  /\ ~is_comparison_query(UserText(msgs))
  /\ Locals(r, msgs, cid)
  /\ filter_calls' = [filter_calls EXCEPT ![r] = @ + 1]
  /\ pc' = [pc EXCEPT ![r] = "returned"]
  /\ outcome' = [outcome EXCEPT ![r] = RejectedOutcome(ContextOf(r, cid))]
  /\ UNCHANGED <<lists, shutdown, messages, response, comparison_data, error,
                 llm_calls, invoked, lookups>>
  /\ Track(r)

\* outbound with the new user message put before the history
outbound_user_first(h, message) ==
  [messages |-> <<ChatMsg("system", system_prompt), ChatMsg("user", message)>> \o h,
   history |-> h]

\* outbound with the user message appended to the history before the model
\* is called
outbound_appends(h, message) ==
  [messages |-> <<ChatMsg("system", system_prompt)>> \o h \o <<ChatMsg("user", message)>>,
   history |-> Append(h, ChatMsg("user", message))]

\* lines 184-186 on the list h: the outbound sequence, and h as the lines
\* leave it
outbound(h, message) ==
  [messages |-> <<ChatMsg("system", system_prompt)>> \o h \o <<ChatMsg("user", message)>>,
   history |-> h]

\* lines 37-56, 84-88 and 184-196: the text passes, _chat_with_tools builds
\* the outbound sequence and suspends at the first model call
EnterLoop(r, msgs, cid) ==
  /\ Arrives(r, cid)
  /\ InputError(msgs) = ""
  /\ is_comparison_query(UserText(msgs))
  /\ Locals(r, msgs, cid)
  /\ filter_calls' = [filter_calls EXCEPT ![r] = @ + 1]
  /\ LET ref == get_history(ContextOf(r, cid), r).ref
         o == outbound(lists[ref], UserText(msgs))
     IN /\ messages' = [messages EXCEPT ![r] = o.messages]
        /\ lists' = [lists EXCEPT ![ref] = o.history]
  /\ llm_calls' = [llm_calls EXCEPT ![r] = 1]
  /\ pc' = [pc EXCEPT ![r] = "awaiting_model"]
  /\ UNCHANGED <<shutdown, response, comparison_data, outcome, error, invoked, lookups>>
  /\ Track(r)

(***************************************************************************)
(* _chat_with_tools: the loop, one action per resumption from the model    *)
(* call.                                                                   *)
(***************************************************************************)
\* "insight" in content or "company1" in content, for a dict or a list
HasSignal(content) == HasKey(content, "insight") \/ HasKey(content, "company1")

\* ScanResults keeping the first payload that carries the signal
RECURSIVE ScanResults_first_wins(_, _, _)
ScanResults_first_wins(results, i, data) ==
  IF i > Len(results) THEN [ok |-> TRUE, err |-> "", data |-> data]
  ELSE LET content == loads(results[i].content).val IN
       IF content.ty \notin {"dict", "list"}
       THEN [ok |-> FALSE, err |-> "TypeError", data |-> data]
       ELSE ScanResults_first_wins(results, i + 1,
                                   IF HasSignal(content) /\ ~PyTruthy(data)
                                   THEN content ELSE data)

\* ScanResults keeping the last result's payload whether or not it carries
\* the signal
RECURSIVE ScanResults_last_wins(_, _, _)
ScanResults_last_wins(results, i, data) ==
  IF i > Len(results) THEN [ok |-> TRUE, err |-> "", data |-> data]
  ELSE LET content == loads(results[i].content).val IN
       IF content.ty \notin {"dict", "list"}
       THEN [ok |-> FALSE, err |-> "TypeError", data |-> data]
       ELSE ScanResults_last_wins(results, i + 1, content)

\* lines 207-210 from result i on: [ok, err, data]; the membership test
\* raises TypeError on a value that is no container
RECURSIVE ScanResults(_, _, _)
ScanResults(results, i, data) ==
  IF i > Len(results) THEN [ok |-> TRUE, err |-> "", data |-> data]
  ELSE LET content == loads(results[i].content).val IN
       IF content.ty \notin {"dict", "list"}
       THEN [ok |-> FALSE, err |-> "TypeError", data |-> data]
       ELSE ScanResults(results, i + 1, IF HasSignal(content) THEN content ELSE data)

\* lines 213-227: the assistant message, its calls copied field by field
AssistantToolMsg(resp) ==
  [role |-> "assistant", content |-> Str(resp.content),
   tool_calls |-> [i \in 1..Len(resp.tool_calls) |->
                     ToolCall(resp.tool_calls[i].id, resp.tool_calls[i].name,
                              resp.tool_calls[i].arguments)],
   tool_call_id |-> ""]

\* iterating None
HandleNone ==
  [ok |-> FALSE, results |-> <<>>, err |-> "TypeError", invoked |-> <<>>, lookups |-> <<>>]

\* lines 201-228, then 192 again or the except branch of 134-152
ModelRequestsTools(r, resp) ==
  /\ pc[r] = "awaiting_model"
  /\ resp.finish_reason = "tool_calls"
  /\ response' = [response EXCEPT ![r] = resp]
  /\ LET h == IF resp.has_calls THEN handle_tool_calls(resp.tool_calls) ELSE HandleNone
         s == ScanResults(h.results, 1, comparison_data[r])
     IN /\ invoked' = [invoked EXCEPT ![r] = @ \o h.invoked]
        /\ lookups' = [lookups EXCEPT ![r] = @ \o h.lookups]
        /\ IF h.ok /\ s.ok
           THEN /\ comparison_data' = [comparison_data EXCEPT ![r] = s.data]
                /\ messages' = [messages EXCEPT ![r] =
                                  @ \o <<AssistantToolMsg(resp)>> \o h.results]
                /\ llm_calls' = [llm_calls EXCEPT ![r] = @ + 1]
                /\ UNCHANGED <<pc, outcome>>
           ELSE /\ pc' = [pc EXCEPT ![r] = "returned"]
                /\ outcome' = [outcome EXCEPT ![r] =
                                 FailedOutcome(context_id[r], IF h.ok THEN s.err ELSE h.err)]
                /\ UNCHANGED <<comparison_data, messages, llm_calls>>
  /\ UNCHANGED <<conversations, lists, shutdown, request, context_id, history,
                 user_text, error, filter_calls>>
  /\ Track(r)

\* append_turn storing the reply without the user message
append_turn_reply_only(h, message, content) ==
  h \o <<ChatMsg("assistant", content)>>

\* lines 234-238: the two appends to the caller's list
append_turn(h, message, content) ==
  h \o <<ChatMsg("user", message), ChatMsg("assistant", content)>>

\* lines 229-240, then 90-132
ModelAnswers(r, resp) ==
  /\ pc[r] = "awaiting_model"
  /\ resp.finish_reason # "tool_calls"
  /\ response' = [response EXCEPT ![r] = resp]
  /\ lists' = [lists EXCEPT ![history[r]] = append_turn(@, user_text[r], resp.content)]
  /\ conversations' = [conversations EXCEPT ![context_id[r]] = history[r]]
  /\ outcome' = [outcome EXCEPT ![r] =
                   CompletedOutcome(context_id[r], resp.content, comparison_data[r])]
  /\ pc' = [pc EXCEPT ![r] = "returned"]
  /\ UNCHANGED <<shutdown, request, context_id, history, user_text, messages,
                 comparison_data, error, llm_calls, invoked, lookups, filter_calls>>
  /\ Track(r)

\* line 192 raises, then 134-152
ModelRaises(r, e) ==
  /\ pc[r] = "awaiting_model"
  /\ pc' = [pc EXCEPT ![r] = "returned"]
  /\ outcome' = [outcome EXCEPT ![r] = FailedOutcome(context_id[r], e)]
  /\ UNCHANGED <<conversations, lists, shutdown, request, context_id, history, user_text,
                 messages, response, comparison_data, error, llm_calls, invoked,
                 lookups, filter_calls>>
  /\ Track(r)

\* src/main.py:29-31 and comparison_agent.py:242-245: the server has stopped
\* taking requests and those in flight have ended
Cleanup ==
  /\ ~shutdown
  /\ \A r \in Requests : pc[r] # "awaiting_model"
  /\ shutdown' = TRUE
  /\ conversations' = [c \in CtxIds |-> NoList]
  /\ UNCHANGED <<lists, pc, request, context_id, history, user_text, messages,
                 response, comparison_data, outcome, error, llm_calls, invoked, lookups,
                 filter_calls, wrote>>

\* tool calls request r's run has dispatched and appended so far
CallsSoFar(r) == Cardinality({i \in DOMAIN messages[r] : messages[r][i].role = "tool"})

(***************************************************************************)
(* Spec: MaxReq requests handled concurrently; the model requests at most  *)
(* one tool call in a run, from a small repertoire.                        *)
(***************************************************************************)
Next ==
  \/ \E r \in Requests, msgs \in SessionInputs, cid \in CtxIds \cup {NoCtx} :
       RaiseInputError(r, msgs, cid) /\ UNCHANGED endpoint
  \/ \E r \in Requests, msgs \in SessionInputs, cid \in CtxIds \cup {NoCtx} :
       RejectQuery(r, msgs, cid) /\ UNCHANGED endpoint
  \/ \E r \in Requests, msgs \in SessionInputs, cid \in CtxIds \cup {NoCtx} :
       EnterLoop(r, msgs, cid) /\ UNCHANGED endpoint
  \/ \E r \in Requests, tcs \in CallSeqs(SessionCalls, 1) :
       llm_calls[r] = 1 /\ ModelRequestsTools(r, ToolResponse(tcs)) /\ UNCHANGED endpoint
  \/ \E r \in Requests, resp \in SessionFinals : ModelAnswers(r, resp) /\ UNCHANGED endpoint
  \/ \E r \in Requests, e \in ModelErrors : ModelRaises(r, e) /\ UNCHANGED endpoint
  \/ Cleanup /\ UNCHANGED endpoint

Spec == Init /\ [][Next]_vars

(***************************************************************************)
(* SpecWarm: the same requests, arriving at a server on which an earlier   *)
(* request has left one completed turn under the client's context id.      *)
(***************************************************************************)
PriorTurn == <<ChatMsg("user", CompareText), ChatMsg("assistant", Answer)>>

InitWarm ==
  /\ conversations = [c \in CtxIds |-> IF c = ClientCtx THEN PriorList ELSE NoList]
  /\ lists = [l \in ListRefs |-> IF l = PriorList THEN PriorTurn ELSE <<>>]
  /\ InitRuns

SpecWarm == InitWarm /\ [][Next]_vars

(***************************************************************************)
(* SpecLoop: one request, the full repertoire of tool calls, MaxRounds     *)
(* model invocations.                                                      *)
(***************************************************************************)
NextLoop ==
  \/ \E msgs \in LoopInputs, cid \in {NoCtx, 1} :
       RaiseInputError(1, msgs, cid) /\ UNCHANGED endpoint
  \/ \E msgs \in LoopInputs, cid \in {NoCtx, 1} :
       RejectQuery(1, msgs, cid) /\ UNCHANGED endpoint
  \/ \E msgs \in LoopInputs, cid \in {NoCtx, 1} :
       EnterLoop(1, msgs, cid) /\ UNCHANGED endpoint
  \/ \E n \in 0..(MaxCalls - CallsSoFar(1)) : \E tcs \in CallSeqs(LoopCalls, n) :
       llm_calls[1] < MaxRounds /\ ModelRequestsTools(1, ToolResponse(tcs)) /\ UNCHANGED endpoint
  \/ llm_calls[1] < MaxRounds /\ ModelRequestsTools(1, NoCallsResponse) /\ UNCHANGED endpoint
  \/ \E resp \in FinalResponses : ModelAnswers(1, resp) /\ UNCHANGED endpoint
  \/ \E e \in ModelErrors : ModelRaises(1, e) /\ UNCHANGED endpoint
  \/ Cleanup /\ UNCHANGED endpoint

SpecLoop == Init /\ [][NextLoop]_vars

(***************************************************************************)
(* a2a_endpoint: the handler around process_messages.                      *)
(***************************************************************************)
\* a request body: what request.json() makes of it ("invalid": it raises;
\* "list": a JSON value that is no object), the envelope's fields, whether
\* JSONRPCRequest(**body) validates, and the params it then carries
Body(json, jsonrpc, has_id, method, valid, msgs, cid) ==
  [json |-> json, jsonrpc |-> jsonrpc, has_id |-> has_id,
   id |-> IF has_id THEN "req-1" ELSE "", method |-> method, valid |-> valid,
   messages |-> msgs, contextId |-> cid]

Envelope(method, msgs, cid) == Body("object", "2.0", TRUE, method, TRUE, msgs, cid)

Bodies ==
  { Body("invalid", "", FALSE, "", FALSE, <<>>, NoCtx),
    Body("list", "", FALSE, "", FALSE, <<>>, NoCtx),
    Body("object", "", TRUE, "execute", TRUE, MsgCompare, NoCtx),
    Body("object", "1.0", TRUE, "execute", TRUE, MsgCompare, NoCtx),
    Body("object", "2.0", FALSE, "execute", TRUE, MsgCompare, NoCtx),
    Body("object", "2.0", TRUE, "message/send", FALSE, <<>>, NoCtx) }
  \cup {Envelope("message/send", msgs, NoCtx) : msgs \in {MsgCompare, MsgWeather, MsgBlank}}
  \cup {Envelope("execute", msgs, cid) :
          msgs \in {MsgCompare, MsgNested, NoMessages}, cid \in {NoCtx} \cup ClientCtxIds}

\* body.get("id"): "" stands for None
IdOf(body) == IF body.has_id THEN body.id ELSE ""

\* src/main.py:51-61
Error400(id) ==
  [sent |-> "response", status |-> 400, id |-> id, code |-> -32600, detail |-> "",
   result |-> NoOutcome]

\* src/main.py:96-107, with the id the handler could evaluate
Error500(id, e) ==
  [sent |-> "response", status |-> 500, id |-> id, code |-> -32603, detail |-> e,
   result |-> NoOutcome]

\* src/main.py:88-93
Result200(id, result) ==
  [sent |-> "response", status |-> 200, id |-> id, code |-> 0, detail |-> "",
   result |-> result]

\* the exception leaves a2a_endpoint: nothing of the handler's is sent
Escaped(e) ==
  [sent |-> "escaped", status |-> 0, id |-> "", code |-> 0, detail |-> e,
   result |-> NoOutcome]

\* the handler's own exit before the agent is called, NoHttp when it goes on:
\* line 47 raises with body unbound; line 50 raises on a body without .get and
\* line 100, inside the except clause, evaluates body.get again; lines 50-61;
\* line 63 raises
Early(body) ==
  IF body.json = "invalid" THEN Error500("", "JSONDecodeError")
  ELSE IF body.json # "object" THEN Escaped("AttributeError")
  ELSE IF body.jsonrpc # "2.0" \/ ~body.has_id THEN Error400(IdOf(body))
  ELSE IF ~body.valid THEN Error500(IdOf(body), "ValidationError")
  ELSE NoHttp

\* lines 66-77: the arguments of process_messages
Args(body) ==
  IF body.method = "message/send" THEN [messages |-> body.messages, context_id |-> NoCtx]
  ELSE IF body.method = "execute"
  THEN [messages |-> body.messages, context_id |-> body.contextId]
  ELSE [messages |-> <<>>, context_id |-> NoCtx]

\* lines 80-107 once process_messages is at position p with exception e or
\* result o: the reply, or the handler still suspended
Reply(id, p, e, o) ==
  IF p = "raised" THEN Error500(id, e)
  ELSE IF p = "returned" THEN Result200(id, o)
  ELSE [NoHttp EXCEPT !.sent = "pending"]

Receives(r, body) ==
  /\ pc[r] = "new"
  /\ endpoint[r].http.sent = "none"

\* lines 45-63 and 95-107: the handler ends without calling the agent
ReturnsEarly(r, body) ==
  /\ Receives(r, body)
  /\ Early(body) # NoHttp
  /\ endpoint' = [endpoint EXCEPT ![r] = [body |-> body, http |-> Early(body)]]
  /\ UNCHANGED agent_vars

\* the reply after a step of request r's run
Replies(r, body) ==
  endpoint' = [endpoint EXCEPT ![r] =
                 [body |-> body, http |-> Reply(IdOf(body), pc'[r], error'[r], outcome'[r])]]

\* lines 45-79: the handler gets as far as calling process_messages
CallsAgent(r, body) ==
  /\ Receives(r, body)
  /\ Early(body) = NoHttp

\* process_messages runs to its first exit or suspension within the step
\* that calls it
NextEndpoint ==
  \/ \E body \in Bodies : ReturnsEarly(1, body)
  \/ \E body \in Bodies :
       /\ CallsAgent(1, body)
       /\ RaiseInputError(1, Args(body).messages, Args(body).context_id)
       /\ Replies(1, body)
  \/ \E body \in Bodies :
       /\ CallsAgent(1, body)
       /\ RejectQuery(1, Args(body).messages, Args(body).context_id)
       /\ Replies(1, body)
  \/ \E body \in Bodies :
       /\ CallsAgent(1, body)
       /\ EnterLoop(1, Args(body).messages, Args(body).context_id)
       /\ Replies(1, body)
  \/ \E tcs \in CallSeqs(LoopCalls, 1) :
       /\ llm_calls[1] < MaxRounds
       /\ ModelRequestsTools(1, ToolResponse(tcs))
       /\ Replies(1, endpoint[1].body)
  \/ \E resp \in FinalResponses : ModelAnswers(1, resp) /\ Replies(1, endpoint[1].body)
  \/ \E e \in ModelErrors : ModelRaises(1, e) /\ Replies(1, endpoint[1].body)

SpecEndpoint == Init /\ [][NextEndpoint]_vars

(***************************************************************************)
(* SpecFetch: one request whose model asks for compare_companies on every  *)
(* pair of tickers of the data source, one call a round.                   *)
(***************************************************************************)
FetchCall(t1, t2) == <<ToolCall(CallId(1), "compare_companies", TickerArgs(t1, t2))>>

NextFetch ==
  \/ \E msgs \in {MsgCompare, MsgNested} : EnterLoop(1, msgs, NoCtx) /\ UNCHANGED endpoint
  \/ \E t1 \in Tickers, t2 \in Tickers :
       /\ llm_calls[1] < MaxRounds
       /\ ModelRequestsTools(1, ToolResponse(FetchCall(t1, t2)))
       /\ UNCHANGED endpoint
  \/ \E resp \in SessionFinals : ModelAnswers(1, resp) /\ UNCHANGED endpoint

SpecFetch == Init /\ [][NextFetch]_vars

(***************************************************************************)
(* SpecData: two requests on the client's context, one after the other;    *)
(* the model of each asks for comparisons that succeed, comparisons that    *)
(* give an error payload and an undeclared tool, MaxCalls calls a run.      *)
(***************************************************************************)
DataCalls ==
  { Call("compare_companies", TickerArgs("AAPL", "MSFT")),
    Call("compare_companies", TickerArgs("MSFT", "AAPL")),
    Call("compare_companies", TickerArgs("AAPL", "ZZZZ")),
    Call("get_stock_price", TickerArgs("AAPL", "MSFT")) }

FirstTwo == {1, 2}

\* the requests before r have returned
InTurn(r) == \A q \in 1..(r - 1) : pc[q] = "returned"

NextData ==
  \/ \E r \in FirstTwo :
       InTurn(r) /\ EnterLoop(r, MsgCompare, ClientCtx) /\ UNCHANGED endpoint
  \/ \E r \in FirstTwo : \E n \in 1..(MaxCalls - CallsSoFar(r)) :
       \E tcs \in CallSeqs(DataCalls, n) :
         /\ llm_calls[r] < MaxRounds
         /\ ModelRequestsTools(r, ToolResponse(tcs))
         /\ UNCHANGED endpoint
  \/ \E r \in FirstTwo, resp \in SessionFinals :
       ModelAnswers(r, resp) /\ UNCHANGED endpoint

SpecData == Init /\ [][NextData]_vars

(***************************************************************************)
(* SpecExtract: one request whose message has up to MaxParts parts, in      *)
(* every order: direct texts, blank and missing texts, nested histories     *)
(* and data that is no history.                                             *)
(***************************************************************************)
ExtractParts ==
  { TextPart(CompareText),
    TextPart(<<WS>> \o WeatherText),
    TextPart(<<WS>>),
    TextPart(PyNone),
    DataPart(ListData(<<TextItem(VersusText \o <<WS>>), TextItem(<<"sorry", "failed">>)>>)),
    DataPart(ListData(<<TextItem(<<"<", "p", ">">>)>>)),
    DataPart(ListData(<<>>)),
    DataPart(DictData) }

PartSeqs(n) == UNION {[1..k -> ExtractParts] : k \in 0..n}

ExtractInputs == {<<Msg(parts)>> : parts \in PartSeqs(MaxParts)}

NextExtract ==
  \/ \E msgs \in ExtractInputs : RaiseInputError(1, msgs, NoCtx) /\ UNCHANGED endpoint
  \/ \E msgs \in ExtractInputs : RejectQuery(1, msgs, NoCtx) /\ UNCHANGED endpoint
  \/ \E msgs \in ExtractInputs : EnterLoop(1, msgs, NoCtx) /\ UNCHANGED endpoint

SpecExtract == Init /\ [][NextExtract]_vars

(***************************************************************************)
(* Properties.                                                             *)
(***************************************************************************)
ToolGroupAt(ms, i) ==
  LET n == Len(ms[i].tool_calls) IN
  /\ i + n <= Len(ms)
  /\ \A k \in 1..n :
       ms[i + k].role = "tool" /\ ms[i + k].tool_call_id = ms[i].tool_calls[k].id
  /\ i + n + 1 <= Len(ms) => ms[i + n + 1].role # "tool"

WellThreaded(ms) ==
  /\ \A i \in DOMAIN ms :
       (ms[i].role = "assistant" /\ ms[i].tool_calls # <<>>) => ToolGroupAt(ms, i)
  /\ \A j \in DOMAIN ms :
       ms[j].role = "tool" =>
         \E i \in 1..(j - 1) :
           ms[i].role = "assistant" /\ j - i <= Len(ms[i].tool_calls)

\* C1: at every model invocation and at return, each assistant message of the
\* outbound sequence that carries tool calls is immediately followed by one
\* tool-role result per call, with the call's id, in the order of the calls,
\* and every tool-role message belongs to such a group.
C1_ToolCallsAnswered == \A r \in Requests : WellThreaded(messages[r])

\* a run that returned after two tool rounds, one of them with two calls
C1_Witness ==
  \E r \in Requests :
    /\ outcome[r].state = "completed"
    /\ llm_calls[r] = 3
    /\ \E i \in DOMAIN messages[r] : Len(messages[r][i].tool_calls) = 2
    /\ \E i \in DOMAIN messages[r] :
         messages[r][i].role = "tool"
         /\ loads(messages[r][i].content).val = EmptyDict

KnownErrors == {"APIConnectionError", "JSONDecodeError", "TypeError", "AttributeError"}

\* C2: a request that ended 'failed' has no artifacts, a message that embeds
\* the error text, and no step of it changed the session map or a history.
C2_FailureLeavesSessions ==
  \A r \in Requests :
    outcome[r].state = "failed" =>
      /\ outcome[r].artifacts = <<>>
      /\ Len(outcome[r].message) = 2
      /\ outcome[r].message[1] = ErrPrefix
      /\ outcome[r].message[2] \in KnownErrors
      /\ ~wrote[r]

\* a request failed after dispatching a tool, on a context that has a stored
\* history, and that history is the one turn stored before it
C2_Witness ==
  \E r \in Requests :
    /\ outcome[r].state = "failed"
    /\ invoked[r] # <<>>
    /\ conversations[context_id[r]] # NoList
    /\ Len(lists[conversations[context_id[r]]]) = 2

TurnIn(h, u, a) ==
  \E i \in 1..(Len(h) - 1) : h[i] = ChatMsg("user", u) /\ h[i + 1] = ChatMsg("assistant", a)

\* C3: once a request has returned 'completed' through the loop, the stored
\* history of its context id holds its user entry followed by its reply, for
\* as long as the process has not cleaned up.
C3_CompletedTurnStored ==
  \A r \in Requests :
    (outcome[r].state = "completed" /\ llm_calls[r] > 0 /\ ~shutdown) =>
      /\ conversations[context_id[r]] # NoList
      /\ TurnIn(lists[conversations[context_id[r]]], user_text[r], outcome[r].message)

Started(r) == pc[r] # "new"
RejectedInput(r) ==
  /\ Started(r)
  /\ request[r].messages # <<>>
  /\ UserText(request[r].messages) # <<>>
  /\ ~is_comparison_query(UserText(request[r].messages))

\* C4: a request whose text the intent filter rejects returns 'completed'
\* with no artifacts and the fixed guidance message, and neither the model nor
\* the dispatcher nor the data source is called for it.
C4_RejectionCallsNothing ==
  \A r \in Requests :
    RejectedInput(r) =>
      /\ pc[r] = "returned"
      /\ outcome[r].state = "completed"
      /\ outcome[r].artifacts = <<>>
      /\ outcome[r].message = Guidance
      /\ llm_calls[r] = 0
      /\ messages[r] = <<>>
      /\ invoked[r] = <<>>
      /\ lookups[r] = <<>>

C4_Witness ==
  \E r \in Requests :
    /\ request[r].messages = MsgWeather
    /\ pc[r] = "returned"
    /\ filter_calls[r] = 1

\* C5: handling a non-comparison text changes neither the session map nor a
\* history, and requests with the same non-comparison text all get
\* 'completed' outcomes with the same message.
C5_RejectionHasNoEffect ==
  \A r \in Requests :
    RejectedInput(r) =>
      /\ ~wrote[r]
      /\ \A q \in Requests :
           (RejectedInput(q) /\ user_text[q] = user_text[r]) =>
             /\ outcome[q].state = "completed" /\ outcome[r].state = "completed"
             /\ outcome[q].message = outcome[r].message

\* the same non-comparison text handled twice, the second time on a context
\* id no session exists for
C5_Witness ==
  \E r \in Requests, q \in Requests :
    /\ r # q
    /\ RejectedInput(r) /\ RejectedInput(q)
    /\ user_text[q] = user_text[r]
    /\ request[q].context_id = ClientCtx
    /\ conversations[ClientCtx] = NoList

\* C6: the dispatcher calls nothing but the handlers of the declared tools.
C6_OnlyDeclaredToolsInvoked ==
  \A r \in Requests : \A i \in DOMAIN invoked[r] : invoked[r][i] \in tools

\* a call whose arguments parse to an object and, for a declared tool, bind
WellFormedCall(tc) ==
  /\ loads(tc.arguments).ok
  /\ loads(tc.arguments).val.ty = "dict"
  /\ tc.name \in tools => Keys(loads(tc.arguments).val) = {"ticker1", "ticker2"}

\* C7: after a response whose calls are all well formed, the turn has not
\* failed, the loop is at the next model invocation, and the result of every
\* call whose name is no declared tool is the serialized empty object with
\* that call's id.
C7_UnknownToolGivesEmptyObject ==
  \A r \in Requests :
    LET tcs == response[r].tool_calls
        n == Len(tcs)
        L == Len(messages[r])
    IN (/\ response[r].finish_reason = "tool_calls"
        /\ response[r].has_calls
        /\ \A k \in 1..n : WellFormedCall(tcs[k])) =>
         /\ outcome[r].state # "failed"
         /\ pc[r] = "awaiting_model"
         /\ L > n
         /\ \A k \in 1..n :
              tcs[k].name \notin tools =>
                messages[r][L - n + k] =
                  [role |-> "tool", content |-> dumps(EmptyDict),
                   tool_calls |-> <<>>, tool_call_id |-> tcs[k].id]

\* the largest cap the exploration can see a run exceed
LoopCap == MaxRounds - 1

\* C8: a run that has made more model invocations than the cap has ended
\* 'failed' with a loop-limit error.
C8_LoopIsCapped ==
  \A r \in Requests :
    llm_calls[r] > LoopCap =>
      /\ outcome[r].state = "failed"
      /\ outcome[r].message = <<ErrPrefix, "LoopLimitError">>

SignalSeen(ms) ==
  \E i \in DOMAIN ms :
    /\ ms[i].role = "tool"
    /\ {"insight", "company1"} \cap Keys(ms[i].content.js.val) # {}

\* C9: a 'completed' outcome of the loop has 'comparison_text' with the final
\* text as first artifact, and a second artifact, 'comparison_data', exactly
\* when a tool result of the run carried 'insight' or 'company1'.
C9_Artifacts ==
  \A r \in Requests :
    (outcome[r].state = "completed" /\ llm_calls[r] > 0) =>
      LET a == outcome[r].artifacts IN
      /\ Len(a) >= 1
      /\ a[1] = TextArtifact("comparison_text", response[r].content)
      /\ SignalSeen(messages[r]) =>
           Len(a) = 2 /\ a[2].name = "comparison_data" /\ a[2].kind = "data"
      /\ ~SignalSeen(messages[r]) => Len(a) = 1

\* a run whose first round got comparison data and whose second round got an
\* error payload, completed with both artifacts
C9_Witness ==
  \E r \in Requests :
    /\ outcome[r].state = "completed"
    /\ Len(outcome[r].artifacts) = 2
    /\ llm_calls[r] = 3
    /\ LET last == messages[r][Len(messages[r])] IN
       last.role = "tool" /\ "error" \in Keys(last.content.js.val)

BadInput(r) ==
  /\ Started(r)
  /\ \/ request[r].messages = <<>>
     \/ UserText(request[r].messages) = <<>>

\* C10: a request with an empty message list or no extractable text raises:
\* no outcome is built, the filter and the model are not called, and the
\* session state is unchanged.
C10_InputErrorRaises ==
  \A r \in Requests :
    BadInput(r) =>
      /\ pc[r] = "raised"
      /\ error[r] \in {"No message provided", "No text content found in message"}
      /\ outcome[r] = NoOutcome
      /\ filter_calls[r] = 0
      /\ llm_calls[r] = 0
      /\ ~wrote[r]

\* a message without text, sent on a context whose session holds one turn
C10_Witness ==
  \E r \in Requests :
    /\ pc[r] = "raised"
    /\ request[r].messages = MsgBlank
    /\ context_id[r] = ClientCtx
    /\ conversations[ClientCtx] # NoList
    /\ Len(lists[conversations[ClientCtx]]) = 2


\* the body is an envelope the handler refuses: jsonrpc missing or wrong, or
\* no id
MalformedEnvelope(body) ==
  body.json = "object" /\ (body.jsonrpc # "2.0" \/ ~body.has_id)

\* handling the body raises: it cannot be parsed, it is no JSON object, its
\* params do not validate, or the agent raises an input error
HandlingRaises(body) ==
  \/ body.json \in {"invalid", "list"}
  \/ /\ body.json = "object" /\ ~MalformedEnvelope(body)
     /\ (~body.valid \/ InputError(Args(body).messages) # "")

\* C11: every body that has been handled got a JSON-RPC reply and no
\* exception left the handler; a malformed envelope got 400 with code -32600
\* and every exception raised while handling got 500 with code -32603 and
\* its detail.
C11_EveryBodyAnswered ==
  \A r \in Requests :
    LET body == endpoint[r].body
        http == endpoint[r].http
    IN http.sent \notin {"none", "pending"} =>
         /\ http.sent = "response"
         /\ MalformedEnvelope(body) => http.status = 400 /\ http.code = -32600
         /\ HandlingRaises(body) =>
              http.status = 500 /\ http.code = -32603 /\ http.detail # ""


\* the call that the tool message at position j of ms answers
CallAnswered(ms, j) ==
  LET i == CHOOSE i \in 1..(j - 1) :
             /\ ms[i].role = "assistant"
             /\ \A k \in (i + 1)..j : ms[k].role = "tool"
  IN ms[i].tool_calls[j - i]

\* the data source gives no usable record for the pair: a ticker is empty,
\* the source raises, or a record is empty or has no shortName
NoRecord(t1, t2) ==
  \/ t1 = "" \/ t2 = ""
  \/ YfRaises(t1) \/ YfRaises(t2)
  \/ ~HasKey(YfInfo(t1), "shortName") \/ ~HasKey(YfInfo(t2), "shortName")

FetchResultShaped(call, content) ==
  LET args == loads(call.arguments).val
      t1 == StrOf(Get(args, "ticker1"))
      t2 == StrOf(Get(args, "ticker2"))
      result == loads(content)
  IN /\ result.ok
     /\ Keys(result.val) = IF NoRecord(t1, t2) THEN {"error"}
                           ELSE {"insight", "company1", "company2"}

\* C12: every compare_companies call of a run is answered by a tool result
\* (the function does not raise) whose payload has exactly the key 'error'
\* when a ticker is empty, the source has no record with a shortName or the
\* source raises, and exactly 'insight', 'company1', 'company2' otherwise;
\* and a run whose tool calls are all such calls never fails.
C12_FetchNeverRaisesNorPartial ==
  \A r \in Requests :
    /\ outcome[r].state # "failed"
    /\ Len(invoked[r]) = CallsSoFar(r)
    /\ \A j \in DOMAIN messages[r] :
         messages[r][j].role = "tool" =>
           FetchResultShaped(CallAnswered(messages[r], j), messages[r][j].content)

\* a run completed after a call on which the data source raised and a call
\* for a ticker whose record has no shortName
C12_Witness ==
  /\ outcome[1].state = "completed"
  /\ lookups[1] = <<"BOOM", "AAPL", "NONAME">>
  /\ \A j \in DOMAIN messages[1] :
       messages[1][j].role = "tool" => Keys(loads(messages[1][j].content).val) = {"error"}


\* the part of an outbound sequence between the system prompt and the run's
\* user message, the run having appended rounds - 1 assistant messages and
\* one tool message per dispatched call after it
HistoryPart(ms, rounds) ==
  SubSeq(ms, 2, Len(ms) - rounds - Cardinality({i \in DOMAIN ms : ms[i].role = "tool"}))

PromptHistory(r) == HistoryPart(messages[r], llm_calls[r])

IsPrefix(s, t) == Len(s) <= Len(t) /\ SubSeq(t, 1, Len(s)) = s

\* request r's step is the one that takes it into the loop, or out of it
\* with the model's answer
Enters(r) == pc[r] = "new" /\ pc'[r] = "awaiting_model"
Answered(r) ==
  pc[r] = "awaiting_model" /\ pc'[r] = "returned" /\ outcome'[r].state = "completed"

TurnOf(r) == <<ChatMsg("user", user_text[r]), ChatMsg("assistant", outcome[r].message)>>

\* C13: nothing orders the requests of one context. A run reads the history
\* once, when it enters the loop, and appends its turn when the answer
\* arrives, to whatever the list holds by then: the history its prompt
\* carried is a prefix of the list it appends to and need not be all of it.
C13_ReadAtEntryAppendedAtAnswer ==
  [][\A r \in Requests :
       /\ Enters(r) =>
            HistoryPart(messages'[r], 1) =
              IF conversations[context_id'[r]] = NoList THEN <<>>
              ELSE lists[conversations[context_id'[r]]]
       /\ Answered(r) =>
            /\ IsPrefix(PromptHistory(r), lists[history[r]])
            /\ lists'[history[r]] =
                 lists[history[r]] \o
                   <<ChatMsg("user", user_text[r]), ChatMsg("assistant", outcome'[r].message)>>
    ]_vars

\* two requests on the client's context were suspended at the model call
\* together, both having read the prior turn; both have answered and the
\* stored history ends with the turn of one right after the turn of the
\* other, which its prompt did not contain
C13_Witness ==
  \E r \in Requests : \E q \in Requests \ {r} :
    /\ context_id[r] = ClientCtx /\ context_id[q] = ClientCtx
    /\ outcome[r].state = "completed" /\ outcome[q].state = "completed"
    /\ llm_calls[r] > 0 /\ llm_calls[q] > 0
    /\ user_text[r] # user_text[q]
    /\ PromptHistory(r) = PriorTurn /\ PromptHistory(q) = PriorTurn
    /\ conversations[ClientCtx] = history[r]
    /\ lists[history[r]] = PriorTurn \o TurnOf(q) \o TurnOf(r)


\* h is a sequence of (user, assistant) pairs of plain chat messages
PairShaped(h) ==
  /\ Len(h) % 2 = 0
  /\ \A i \in DOMAIN h :
       /\ h[i].role = IF i % 2 = 1 THEN "user" ELSE "assistant"
       /\ h[i].tool_calls = <<>>
       /\ h[i].tool_call_id = ""

\* list l changes only in the step in which a request that holds it gets the
\* model's answer, and then by that request's user text and reply
OnlyAnswersAppend(l) ==
  lists'[l] # lists[l] =>
    \E r \in Requests :
      /\ Answered(r)
      /\ history[r] = l
      /\ lists'[l] = lists[l] \o <<ChatMsg("user", user_text[r]),
                                   ChatMsg("assistant", outcome'[r].message)>>

\* C14: every history list is at all times a sequence of (user, assistant)
\* pairs, with no system, tool or tool-calling assistant message in it; a
\* list changes only in the one step in which a run gets the model's answer,
\* by that run's user message followed by its reply, and every such step
\* appends that pair.
C14_HistoryIsPairs ==
  /\ [](\A l \in ListRefs : PairShaped(lists[l]))
  /\ [][/\ \A l \in ListRefs : OnlyAnswersAppend(l)
        /\ \A r \in Requests : Answered(r) => lists'[history[r]] # lists[history[r]]
       ]_vars

\* a run on the client's context has answered after a tool round, while
\* another run on that context is still suspended at the model call, and the
\* stored history holds the prior turn and the run's turn only
C14_Witness ==
  \E r \in Requests : \E q \in Requests \ {r} :
    /\ context_id[r] = ClientCtx
    /\ outcome[r].state = "completed" /\ llm_calls[r] = 2
    /\ \E i \in DOMAIN messages[r] : messages[r][i].role = "tool"
    /\ pc[q] = "awaiting_model" /\ history[q] = history[r]
    /\ conversations[ClientCtx] = history[r]
    /\ lists[history[r]] = PriorTurn \o TurnOf(r)


\* the step is one of request r's handler
Acting(r) == pc'[r] # pc[r] \/ llm_calls'[r] # llm_calls[r]

\* the stored history of context c, empty when c has no session
Stored(c) == IF conversations[c] = NoList THEN <<>> ELSE lists[conversations[c]]

\* the step leaves the session of context d as it is: its entry in the map
\* and the content of its list
SessionKept(d) ==
  /\ conversations'[d] = conversations[d]
  /\ conversations[d] # NoList => lists'[conversations[d]] = lists[conversations[d]]

\* C15: a step of a request on context c leaves the session of every other
\* context as it is and reads only the history stored under c into its
\* prompt; a request that supplied no context id gets an identifier that no
\* client chose, that is not a key of a session and that no other request
\* has, so its prompt carries no history; and an answered run's list is
\* stored under its own context id and under no other.
C15_SessionsIsolated ==
  [][\A r \in Requests :
       Acting(r) =>
         LET c == context_id'[r] IN
         /\ \A d \in CtxIds \ {c} : SessionKept(d)
         /\ Enters(r) => HistoryPart(messages'[r], 1) = Stored(c)
         /\ (pc[r] = "new" /\ request'[r].context_id = NoCtx) =>
              /\ c \notin ClientCtxIds
              /\ conversations[c] = NoList
              /\ \A q \in Requests \ {r} : context_id[q] # c
              /\ Enters(r) => HistoryPart(messages'[r], 1) = <<>>
         /\ Answered(r) =>
              /\ conversations'[c] = history[r]
              /\ \A d \in CtxIds \ {c} : conversations'[d] # history[r]
    ]_vars

\* a request without a context id and a request on the client's context have
\* both answered: the first's turn is the whole history of its new context,
\* the second's follows the prior turn under the client's context
C15_Witness ==
  \E r \in Requests : \E q \in Requests \ {r} :
    /\ request[r].context_id = NoCtx /\ context_id[q] = ClientCtx
    /\ outcome[r].state = "completed" /\ outcome[q].state = "completed"
    /\ llm_calls[r] > 0 /\ llm_calls[q] > 0
    /\ PromptHistory(r) = <<>>
    /\ conversations[context_id[r]] # conversations[ClientCtx]
    /\ Stored(context_id[r]) = TurnOf(r)
    /\ Stored(ClientCtx) = PriorTurn \o TurnOf(q)


\* the payload of the last message of ms[1..j] that is a tool result with
\* the comparison signal, None when there is none
RECURSIVE LastSignal(_, _)
LastSignal(ms, j) ==
  IF j = 0 THEN PyNoneVal
  ELSE IF ms[j].role = "tool" /\ HasSignal(loads(ms[j].content).val)
  THEN loads(ms[j].content).val
  ELSE LastSignal(ms, j - 1)

\* the data of the comparison_data artifact of a result, None without one
DataReturned(o) ==
  IF \E i \in DOMAIN o.artifacts : o.artifacts[i].name = "comparison_data"
  THEN (CHOOSE a \in {o.artifacts[i] : i \in DOMAIN o.artifacts} :
          a.name = "comparison_data").data
  ELSE PyNoneVal

\* C16: at every model invocation of a run and at its answer, the run's
\* comparison data is the payload of the last tool result among those the
\* run has dispatched (the tool messages of its outbound sequence, in
\* dispatch order) that carries 'insight' or 'company1', and None when no
\* result of the run carries it; the answered run returns exactly that.
C16_DataIsLastSignal ==
  \A r \in Requests :
    /\ (pc[r] = "awaiting_model" \/ outcome[r].state = "completed") =>
         comparison_data[r] = LastSignal(messages[r], Len(messages[r]))
    /\ (outcome[r].state = "completed" /\ llm_calls[r] > 0) =>
         DataReturned(outcome[r]) = LastSignal(messages[r], Len(messages[r]))

\* the first run got two comparisons in two rounds and returned the second;
\* the next run on the same context got an error payload and the empty
\* object of an undeclared tool, and returned no data
C16_Witness ==
  /\ outcome[1].state = "completed" /\ outcome[2].state = "completed"
  /\ llm_calls[1] = 3 /\ lookups[1] = <<"AAPL", "MSFT", "MSFT", "AAPL">>
  /\ DataReturned(outcome[1]) = compare_companies("MSFT", "AAPL")
  /\ lookups[2] = <<"AAPL", "ZZZZ">> /\ CallsSoFar(2) = 2
  /\ DataReturned(outcome[2]) = PyNoneVal
  /\ Len(PromptHistory(2)) = 2


\* the assistant messages a run has appended to its outbound sequence ms:
\* those after the run's user message, one per completed tool round
RoundMsgs(ms) ==
  {i \in DOMAIN ms : ms[i].role = "assistant" /\ \A j \in i..Len(ms) : ms[j].role # "user"}

\* the names of the calls requested in ms[i..], in the order requested
RECURSIVE RequestedFrom(_, _)
RequestedFrom(ms, i) ==
  IF i > Len(ms) THEN <<>>
  ELSE (IF i \in RoundMsgs(ms)
        THEN [k \in 1..Len(ms[i].tool_calls) |-> ms[i].tool_calls[k].name]
        ELSE <<>>) \o RequestedFrom(ms, i + 1)

IsCallable(name) == name \in GlobalFunctions

\* request r's loop has not raised: it is at the model call or has answered
LoopRunning(r) ==
  pc[r] = "awaiting_model" \/ (outcome[r].state = "completed" /\ llm_calls[r] > 0)

\* once returned, nothing of request r's run changes
Terminal(r) ==
  pc[r] = "returned" =>
    /\ pc'[r] = "returned"
    /\ llm_calls'[r] = llm_calls[r]
    /\ invoked'[r] = invoked[r]
    /\ lookups'[r] = lookups[r]
    /\ messages'[r] = messages[r]
    /\ response'[r] = response[r]
    /\ outcome'[r] = outcome[r]

\* C17: a run whose calls have not raised has invoked the model once more
\* than it has completed tool rounds, has one tool result per requested call
\* of those rounds and has called each requested function of the module
\* exactly once, in the order requested; when it answers it returns the text
\* of the response that was not a tool request; from AWAITING_MODEL a run
\* goes only to AWAITING_MODEL or DONE, and in DONE nothing more happens.
C17_LoopRunsToDone ==
  /\ [](\A r \in Requests :
          /\ LoopRunning(r) =>
               /\ llm_calls[r] = 1 + Cardinality(RoundMsgs(messages[r]))
               /\ CallsSoFar(r) = Len(RequestedFrom(messages[r], 1))
               /\ invoked[r] = SelectSeq(RequestedFrom(messages[r], 1), IsCallable)
          /\ (outcome[r].state = "completed" /\ llm_calls[r] > 0) =>
               /\ response[r].finish_reason # "tool_calls"
               /\ outcome[r].message = response[r].content)
  /\ [][\A r \in Requests :
          /\ Terminal(r)
          /\ pc[r] = "awaiting_model" => pc'[r] \in {"awaiting_model", "returned"}
       ]_vars

\* the third response of a run was the first that was no tool request: two
\* rounds of one call each, one for a declared tool and one for a tool the
\* module does not have, and the third response's text returned
C17_Witness ==
  /\ outcome[1].state = "completed"
  /\ llm_calls[1] = 3
  /\ Cardinality(RoundMsgs(messages[1])) = 2
  /\ RequestedFrom(messages[1], 1) = <<"get_stock_price", "compare_companies">>
  /\ invoked[1] = <<"compare_companies">>
  /\ response[1].finish_reason = "length"
  /\ outcome[1].message = <<"Apple">>


\* what ms2 has after its prefix ms1
Extension(ms1, ms2) == SubSeq(ms2, Len(ms1) + 1, Len(ms2))

\* ext is the assistant message of resp followed by one tool result per call
\* of resp, in the order of the calls
IsToolGroup(ext, resp) ==
  /\ Len(ext) = 1 + Len(resp.tool_calls)
  /\ ext[1] = AssistantToolMsg(resp)
  /\ \A k \in 1..Len(resp.tool_calls) :
       ext[k + 1].role = "tool" /\ ext[k + 1].tool_call_id = resp.tool_calls[k].id

\* C18: the sequence a run sends at its first invocation is the system
\* instruction, the history stored under its context when it starts, and the
\* new user message; afterwards the sequence changes only in a step of the
\* run itself, by one (assistant tool-call message, its results) group
\* appended at the end, so every sequence sent is a prefix of the next and
\* nothing other requests store meanwhile enters it.
C18_OutboundGrowsByGroups ==
  [][\A r \in Requests :
       /\ Enters(r) =>
            messages'[r] = <<ChatMsg("system", system_prompt)>> \o Stored(context_id'[r])
                             \o <<ChatMsg("user", user_text'[r])>>
       /\ pc[r] = "awaiting_model" =>
            /\ IsPrefix(messages[r], messages'[r])
            /\ messages'[r] # messages[r] =>
                 /\ Acting(r)
                 /\ IsToolGroup(Extension(messages[r], messages'[r]), response'[r])
    ]_vars

\* a run on the client's context is at its second invocation, its sequence
\* holding the prior turn and one tool group, while the turn of another
\* request, stored under the same context during the run, is not in it
C18_Witness ==
  \E r \in Requests : \E q \in Requests \ {r} :
    /\ pc[r] = "awaiting_model" /\ llm_calls[r] = 2 /\ CallsSoFar(r) = 1
    /\ context_id[r] = ClientCtx /\ context_id[q] = ClientCtx
    /\ outcome[q].state = "completed" /\ llm_calls[q] > 0
    /\ Stored(ClientCtx) = PriorTurn \o TurnOf(q)
    /\ PromptHistory(r) = PriorTurn
    /\ Len(messages[r]) = 6


\* the texts of the non-empty direct text parts of parts, as extracted
DirectTexts(parts) ==
  {strip(parts[i].text) : i \in {j \in DOMAIN parts :
                                   parts[j].kind = "text" /\ Truthy(parts[j].text)}}

\* what the backward scan finds in the nested histories of parts
HistoryTexts(parts) ==
  {ScanHistory(parts[i].data.items, Len(parts[i].data.items)).text :
     i \in {j \in DOMAIN parts :
              /\ parts[j].kind = "data" /\ parts[j].data.py = "list"
              /\ ScanHistory(parts[j].data.items, Len(parts[j].data.items)).found}}

\* C19: whatever the order of the parts of the latest message, the text
\* extracted is a direct text when the message has a non-empty direct text
\* part; otherwise it is what the backward scan of a nested history finds,
\* and it is empty when there is neither.
C19_DirectTextPreferred ==
  \A r \in Requests :
    (pc[r] # "new" /\ request[r].messages # <<>>) =>
      LET parts == request[r].messages[Len(request[r].messages)].parts IN
      IF DirectTexts(parts) # {} THEN user_text[r] \in DirectTexts(parts)
      ELSE IF HistoryTexts(parts) # {} THEN user_text[r] \in HistoryTexts(parts)
      ELSE user_text[r] = <<>>

====
